---- MODULE Spec2Model ----
(***************************************************************************)
(* A model of the JSON parser (src/src/main.rs) and formatter              *)
(* (src/src/format.rs).                                                    *)
(*                                                                         *)
(* A character is a one-character string and a text is a sequence of       *)
(* characters.  A Value is a record tagged by k.  An f64 is modelled by    *)
(* its exact decimal value (sign, mantissa, number of fractional digits),  *)
(* which is what str::parse::<f64> and f64::to_string agree on for the     *)
(* short literals used here.                                               *)
(***************************************************************************)
EXTENDS Integers, Sequences, FiniteSets, TLC

\* ------------------------------------------------------------------ Value

VNull == [k |-> "null"]
VBool(b) == [k |-> "bool", b |-> b]
VNumber(n) == [k |-> "num", n |-> n]
VString(s) == [k |-> "str", s |-> s]
VArray(a) == [k |-> "arr", a |-> a]
VObject(m) == [k |-> "obj", m |-> m]

\* The placeholder carried by a result that holds no Value.
NoValue == [k |-> "none"]

\* BTreeMap::new() and BTreeMap::insert: a map is a function from its keys.
EmptyMap == [key \in {} |-> NoValue]

\* A map whose insert keeps the value a key already has.
btree_insert_keep(m, key, value) ==
    [x \in (DOMAIN m) \cup {key} |-> IF x \in DOMAIN m THEN m[x] ELSE value]

btree_insert(m, key, value) ==
    [x \in (DOMAIN m) \cup {key} |-> IF x = key THEN value ELSE m[x]]

\* ------------------------------------------------------------------ chars

Digits == {"0", "1", "2", "3", "4", "5", "6", "7", "8", "9"}

DigitVal(ch) ==
    CASE ch = "0" -> 0 [] ch = "1" -> 1 [] ch = "2" -> 2 [] ch = "3" -> 3
      [] ch = "4" -> 4 [] ch = "5" -> 5 [] ch = "6" -> 6 [] ch = "7" -> 7
      [] ch = "8" -> 8 [] ch = "9" -> 9

DigitChar(d) ==
    CASE d = 0 -> "0" [] d = 1 -> "1" [] d = 2 -> "2" [] d = 3 -> "3"
      [] d = 4 -> "4" [] d = 5 -> "5" [] d = 6 -> "6" [] d = 7 -> "7"
      [] d = 8 -> "8" [] d = 9 -> "9"

\* The code point of a character, for the byte order of String keys.
CharCode(ch) ==
    CASE ch = "\t" -> 9 [] ch = "\n" -> 10 [] ch = "\f" -> 12 [] ch = "\r" -> 13
      [] ch = " " -> 32 [] ch = "\"" -> 34 [] ch = "," -> 44 [] ch = "-" -> 45
      [] ch = "." -> 46 [] ch \in Digits -> 48 + DigitVal(ch) [] ch = ":" -> 58
      [] ch = "B" -> 66 [] ch = "[" -> 91 [] ch = "]" -> 93
      [] ch = "a" -> 97 [] ch = "b" -> 98 [] ch = "e" -> 101 [] ch = "f" -> 102
      [] ch = "l" -> 108 [] ch = "n" -> 110 [] ch = "r" -> 114 [] ch = "s" -> 115
      [] ch = "t" -> 116 [] ch = "u" -> 117 [] ch = "x" -> 120
      [] ch = "{" -> 123 [] ch = "}" -> 125

\* ------------------------------------------------------------------ f64

RECURSIVE Pow10(_)
Pow10(n) == IF n = 0 THEN 1 ELSE 10 * Pow10(n - 1)

\* The decimal value (-1)^neg * mant / 10^exp with no trailing fractional zero.
\* The sign of a zero is kept, as an f64 keeps it; no input of the model
\* produces a negative zero.
RECURSIVE F64(_, _, _)
F64(neg, mant, exp) ==
    IF exp > 0 /\ mant % 10 = 0
    THEN F64(neg, mant \div 10, exp - 1)
    ELSE [neg |-> neg, mant |-> mant, exp |-> exp]

RECURSIVE DigitsToNat(_, _)
DigitsToNat(ds, acc) ==
    IF ds = <<>> THEN acc ELSE DigitsToNat(Tail(ds), 10 * acc + DigitVal(Head(ds)))

RECURSIVE IndexOf(_, _, _)
IndexOf(s, ch, i) ==
    IF i > Len(s) THEN 0 ELSE IF s[i] = ch THEN i ELSE IndexOf(s, ch, i + 1)

\* buf.parse::<f64>() on a text of an optional '-', digits and at most one
\* '.': Ok(value) when there is a digit, Err otherwise.
str_parse_f64(buf) ==
    LET neg == buf # <<>> /\ Head(buf) = "-"
        body == IF neg THEN Tail(buf) ELSE buf
        dot == IndexOf(body, ".", 1)
        ip == IF dot = 0 THEN body ELSE SubSeq(body, 1, dot - 1)
        fp == IF dot = 0 THEN <<>> ELSE SubSeq(body, dot + 1, Len(body))
        wellformed == /\ \A i \in 1..Len(ip) : ip[i] \in Digits
                      /\ \A i \in 1..Len(fp) : fp[i] \in Digits
                      /\ Len(ip) + Len(fp) > 0
    IN  IF wellformed
        THEN [ok |-> TRUE, n |-> F64(neg, DigitsToNat(ip \o fp, 0), Len(fp))]
        ELSE [ok |-> FALSE, n |-> F64(FALSE, 0, 0)]

RECURSIVE NatToDigits(_)
NatToDigits(n) ==
    IF n < 10 THEN <<DigitChar(n)>> ELSE Append(NatToDigits(n \div 10), DigitChar(n % 10))

RECURSIVE FracDigits(_, _)
FracDigits(n, width) ==
    IF width = 0 THEN <<>>
    ELSE Append(FracDigits(n \div 10, width - 1), DigitChar(n % 10))

\* n.to_string() for an f64: no exponent, no trailing ".0".
f64_to_string(n) ==
    (IF n.neg THEN <<"-">> ELSE <<>>)
    \o NatToDigits(n.mant \div Pow10(n.exp))
    \o (IF n.exp = 0 THEN <<>> ELSE <<".">> \o FracDigits(n.mant % Pow10(n.exp), n.exp))

\* ------------------------------------------------------------------ errors

\* JsonParserError.msg, by its parts: the kind of message, the keyword whose
\* parse failed (the "failed parsing <word> - " prefix), the expected and the
\* received character.
Msg(kind, word, want, got) == [kind |-> kind, word |-> word, want |-> want, got |-> got]

NoMsg == Msg("", "", "", "")

OkRes(v) == [ok |-> TRUE, val |-> v, msg |-> NoMsg, line |-> 0, col |-> 0]

\* JsonParser::eof
eof(p) ==
    [ok |-> FALSE, val |-> NoValue, msg |-> Msg("unexpected end of line", "", "", ""),
     line |-> p.line, col |-> p.col]

\* JsonParser::error
error(p, msg) == [ok |-> FALSE, val |-> NoValue, msg |-> msg, line |-> p.line, col |-> p.col]

Ret(p, res) == [p |-> p, res |-> res]

\* ------------------------------------------------------------------ parser

\* JsonParser::new
JsonParser_new(text) == [src |-> text, col |-> 1, line |-> 1]

is_whitespace(ch) == ch \in {" ", "\t", "\n", "\f", "\r"}

\* col and line are u32; the texts of the model are far shorter than 2^32
\* characters, so the additions do not wrap.
next_pos(p, ch) ==
    IF ch = "\n"
    THEN [p EXCEPT !.col = 1, !.line = @ + 1]
    ELSE [p EXCEPT !.col = @ + 1]

\* self.src.next() on a source that holds a character: the character is
\* Head(p.src).
src_next(p) == [p EXCEPT !.src = Tail(@)]

\* let ch = self.src.next().unwrap(); self.next_pos(ch);
take(p) == next_pos(src_next(p), Head(p.src))

\* A skip_whitespace that skips nothing.
skip_whitespace_off(p) == p

RECURSIVE skip_whitespace(_)
skip_whitespace(p) ==
    IF p.src # <<>> /\ is_whitespace(Head(p.src))
    THEN skip_whitespace(take(p))
    ELSE p

RECURSIVE read_word(_, _)
read_word(p, word) ==
    IF word = <<>> THEN Ret(p, OkRes(NoValue))
    ELSE IF p.src = <<>> THEN Ret(p, eof(p))
    ELSE LET ch == Head(p.src)
             q == take(p)
         IN  IF ch # Head(word)
             THEN Ret(q, error(q, Msg("expected character", "", Head(word), ch)))
             ELSE read_word(q, Tail(word))

\* .map(|_| value).map_err(|err| "failed parsing <word> - " + err)
read_keyword(p, word, name, value) ==
    LET r == read_word(p, word)
    IN  IF r.res.ok
        THEN Ret(r.p, OkRes(value))
        ELSE Ret(r.p, [r.res EXCEPT !.msg.word = name])

parse_null(p) == read_keyword(p, <<"n", "u", "l", "l">>, "null", VNull)

parse_true(p) == read_keyword(p, <<"t", "r", "u", "e">>, "true", VBool(TRUE))

parse_false(p) == read_keyword(p, <<"f", "a", "l", "s", "e">>, "false", VBool(FALSE))

\* A digit loop that tests the character it got from next(), not a peeked one,
\* and so takes the character that ends the digits.
RECURSIVE digit_loop_next(_, _)
digit_loop_next(p, buf) ==
    IF p.src = <<>> THEN [p |-> p, buf |-> buf]
    ELSE IF Head(p.src) \in Digits THEN digit_loop_next(take(p), Append(buf, Head(p.src)))
    ELSE [p |-> take(p), buf |-> buf]

\* while let Some('0'..='9') = self.src.peek() { next; next_pos; buf.push }
RECURSIVE digit_loop(_, _)
digit_loop(p, buf) ==
    IF p.src # <<>> /\ Head(p.src) \in Digits
    THEN digit_loop(take(p), Append(buf, Head(p.src)))
    ELSE [p |-> p, buf |-> buf]

\* let Some(ch @ '0'..='9') = self.src.next() else { return Err(self.eof()) };
\* the character, when there is one, is taken before the pattern is tested and
\* next_pos is not called on the failing path.
first_digit(p, buf) ==
    IF p.src = <<>> THEN [ok |-> FALSE, p |-> p, buf |-> buf]
    ELSE IF Head(p.src) \notin Digits THEN [ok |-> FALSE, p |-> src_next(p), buf |-> buf]
    ELSE [ok |-> TRUE, p |-> take(p), buf |-> Append(buf, Head(p.src))]

number_finish(p, buf) ==
    LET n == str_parse_f64(buf)
    IN  IF n.ok THEN Ret(p, OkRes(VNumber(n.n)))
        ELSE Ret(p, error(p, Msg("invalid float literal", "", "", "")))

parse_number(p) ==
    LET s == IF p.src # <<>> /\ Head(p.src) = "-"
             THEN [p |-> take(p), buf |-> <<"-">>]
             ELSE [p |-> p, buf |-> <<>>]
        d == first_digit(s.p, s.buf)
        i == digit_loop(d.p, d.buf)
        f == first_digit(take(i.p), Append(i.buf, "."))
        g == digit_loop(f.p, f.buf)
    IN  IF ~d.ok THEN Ret(d.p, eof(d.p))
        ELSE IF i.p.src # <<>> /\ Head(i.p.src) = "."
        THEN IF ~f.ok THEN Ret(f.p, eof(f.p)) ELSE number_finish(g.p, g.buf)
        ELSE number_finish(i.p, i.buf)

\* loop { match self.src.next() { '"' => break, ch => buf.push(ch), None => eof } }
\* no character of the loop is passed to next_pos.
RECURSIVE string_loop(_, _)
string_loop(p, buf) ==
    IF p.src = <<>> THEN Ret(p, eof(p))
    ELSE IF Head(p.src) = "\"" THEN Ret(src_next(p), OkRes(VString(buf)))
    ELSE string_loop(src_next(p), Append(buf, Head(p.src)))

\* parse_string, parse_array and parse_object assert that the first character
\* is their opening one; parse calls each only after it peeked at that character.
parse_string(p) == string_loop(take(p), <<>>)

RECURSIVE parse(_)
RECURSIVE array_loop(_, _)
RECURSIVE object_loop(_, _)

array_loop(p, values) ==
    IF p.src = <<>> THEN Ret(p, eof(p))
    ELSE IF Head(p.src) = "]" THEN Ret(take(p), OkRes(VArray(values)))
    ELSE IF is_whitespace(Head(p.src)) THEN array_loop(take(p), values)
    ELSE LET v == parse(p)
             q == skip_whitespace(v.p)
             ch == Head(q.src)
             r == take(q)
         IN  IF ~v.res.ok THEN v
             ELSE IF q.src = <<>> THEN Ret(q, eof(q))
             ELSE IF ch = "," THEN array_loop(r, Append(values, v.res.val))
             ELSE IF ch = "]" THEN Ret(r, OkRes(VArray(Append(values, v.res.val))))
             ELSE Ret(r, error(r, Msg("expected ',' or ']'", "", "", ch)))

parse_array(p) == array_loop(take(p), <<>>)

object_loop(p, values) ==
    IF p.src = <<>> THEN Ret(p, eof(p))
    ELSE IF Head(p.src) = "}" THEN Ret(take(p), OkRes(VObject(values)))
    ELSE IF is_whitespace(Head(p.src)) THEN object_loop(take(p), values)
    ELSE LET key == parse(p)
             q == skip_whitespace(key.p)
             colon == Head(q.src)
             r == take(q)
             value == parse(skip_whitespace(r))
             s == skip_whitespace(value.p)
             ch == Head(s.src)
             t == take(s)
             inserted == btree_insert(values, key.res.val.s, value.res.val)
         IN  IF ~key.res.ok THEN key
             ELSE IF key.res.val.k # "str"
             THEN Ret(key.p, error(key.p, Msg("expected object key to be a string", "", "", "")))
             ELSE IF q.src = <<>> THEN Ret(q, eof(q))
             ELSE IF colon # ":"
             THEN Ret(r, error(r, Msg("expected ':' after an object key", "", ":", colon)))
             ELSE IF ~value.res.ok THEN value
             ELSE IF s.src = <<>> THEN Ret(s, eof(s))
             ELSE IF ch = "}" THEN Ret(t, OkRes(VObject(inserted)))
             ELSE IF ch = "," THEN object_loop(t, inserted)
             ELSE Ret(t, error(t, Msg("expected ',' or '}'", "", "", ch)))

parse_object(p) == object_loop(take(p), EmptyMap)

parse(p) ==
    IF p.src = <<>> THEN Ret(p, eof(p))
    ELSE LET ch == Head(p.src)
         IN  CASE ch = "t" -> parse_true(p)
               [] ch = "f" -> parse_false(p)
               [] ch = "n" -> parse_null(p)
               [] ch = "{" -> parse_object(p)
               [] ch = "[" -> parse_array(p)
               [] ch = "\"" -> parse_string(p)
               [] ch \in Digits -> parse_number(p)
               [] OTHER -> Ret(p, error(p, Msg("unexpected character", "", "", ch)))

\* ------------------------------------------------------------------ formatter

\* Formatter::new() and Formatter::standard(): the spacing field.
NewSpacing == 0

StandardSpacing == 2

\* for _ in 0..self.spacing { buf.push(' ') }
push_spaces(buf, spacing) == buf \o [i \in 1..spacing |-> " "]

\* The keys of a BTreeMap in iteration order: ascending in the order of
\* String, the lexicographic order of the code points.
RECURSIVE str_less(_, _)
str_less(a, b) ==
    IF b = <<>> THEN FALSE
    ELSE IF a = <<>> THEN TRUE
    ELSE IF Head(a) = Head(b) THEN str_less(Tail(a), Tail(b))
    ELSE CharCode(Head(a)) < CharCode(Head(b))

RECURSIVE btree_keys(_)
btree_keys(keys) ==
    IF keys = {} THEN <<>>
    ELSE LET first == CHOOSE x \in keys : \A y \in keys \ {x} : str_less(x, y)
         IN  <<first>> \o btree_keys(keys \ {first})

format_str(buf, s) == buf \o <<"\"">> \o s \o <<"\"">>

RECURSIVE format_in(_, _, _)
RECURSIVE arr_unspaced_loop(_, _, _, _)
RECURSIVE arr_spaced_loop(_, _, _, _)
RECURSIVE object_unspaced_loop(_, _, _, _, _)
RECURSIVE object_spaced_loop(_, _, _, _, _)

\* for (idx, v) in arr.iter().enumerate() of format_arr_unspaced; idx is 1-based.
arr_unspaced_loop(spacing, buf, arr, idx) ==
    IF idx > Len(arr) THEN buf
    ELSE LET b1 == format_in(spacing, buf, arr[idx])
             b2 == IF idx # Len(arr) THEN Append(b1, ",") ELSE b1
         IN  arr_unspaced_loop(spacing, b2, arr, idx + 1)

format_arr_unspaced(spacing, buf, arr) ==
    Append(arr_unspaced_loop(spacing, Append(buf, "["), arr, 1), "]")

arr_spaced_loop(spacing, buf, arr, idx) ==
    IF idx > Len(arr) THEN buf
    ELSE LET b1 == format_in(spacing, buf, arr[idx])
             b2 == IF idx # Len(arr)
                   THEN push_spaces(b1 \o <<",", "\n">>, spacing)
                   ELSE b1
         IN  arr_spaced_loop(spacing, b2, arr, idx + 1)

\* A format_arr_spaced that puts the closing ']' on a line of its own.
format_arr_spaced_own_line(spacing, buf, arr) ==
    arr_spaced_loop(spacing, push_spaces(buf \o <<"[", "\n">>, spacing), arr, 1)
    \o <<"\n", "]">>

format_arr_spaced(spacing, buf, arr) ==
    Append(arr_spaced_loop(spacing, push_spaces(buf \o <<"[", "\n">>, spacing), arr, 1), "]")

format_arr(spacing, buf, arr) ==
    IF spacing > 0
    THEN format_arr_spaced(spacing, buf, arr)
    ELSE format_arr_unspaced(spacing, buf, arr)

\* for (idx, (k, v)) in obj.iter().enumerate(); keys is btree_keys of obj.
object_unspaced_loop(spacing, buf, obj, keys, idx) ==
    IF idx > Len(keys) THEN buf
    ELSE LET b1 == buf \o <<"\"">> \o keys[idx] \o <<"\"", ":">>
             b2 == format_in(spacing, b1, obj[keys[idx]])
             b3 == IF idx # Len(keys) THEN Append(b2, ",") ELSE b2
         IN  object_unspaced_loop(spacing, b3, obj, keys, idx + 1)

format_object_unspaced(spacing, buf, obj) ==
    Append(object_unspaced_loop(spacing, Append(buf, "{"), obj, btree_keys(DOMAIN obj), 1), "}")

object_spaced_loop(spacing, buf, obj, keys, idx) ==
    IF idx > Len(keys) THEN buf
    ELSE LET b1 == buf \o <<"\"">> \o keys[idx] \o <<"\"", ":", " ">>
             b2 == format_in(spacing, b1, obj[keys[idx]])
             b3 == IF idx # Len(keys)
                   THEN push_spaces(b2 \o <<",", "\n">>, spacing)
                   ELSE b2
         IN  object_spaced_loop(spacing, b3, obj, keys, idx + 1)

format_object_spaced(spacing, buf, obj) ==
    object_spaced_loop(spacing, push_spaces(buf \o <<"{", "\n">>, spacing), obj,
                       btree_keys(DOMAIN obj), 1)
    \o <<"\n", "}">>

format_object(spacing, buf, obj) ==
    IF spacing > 0
    THEN format_object_spaced(spacing, buf, obj)
    ELSE format_object_unspaced(spacing, buf, obj)

format_in(spacing, buf, value) ==
    CASE value.k = "null" -> buf \o <<"n", "u", "l", "l">>
      [] value.k = "bool" /\ value.b -> buf \o <<"t", "r", "u", "e">>
      [] value.k = "bool" /\ ~value.b -> buf \o <<"f", "a", "l", "s", "e">>
      [] value.k = "str" -> format_str(buf, value.s)
      [] value.k = "num" -> buf \o f64_to_string(value.n)
      [] value.k = "arr" -> format_arr(spacing, buf, value.a)
      [] value.k = "obj" -> format_object(spacing, buf, value.m)

\* Formatter::format
format(spacing, value) == format_in(spacing, <<>>, value)

\* The operands n of every `len() - 1` (format.rs 58, 75, 105, 125) evaluated
\* while a Value is formatted.  The subtraction stands in the body of the for
\* loop over the elements, so it is evaluated once for each element.
RECURSIVE format_in_subs(_, _)

format_arr_unspaced_subs(spacing, arr) ==
    UNION {{Len(arr)} \cup format_in_subs(spacing, arr[idx]) : idx \in 1..Len(arr)}

\* A format_arr_spaced that computes arr.len() - 1 once, before its loop.
format_arr_spaced_subs_hoisted(spacing, arr) ==
    {Len(arr)} \cup UNION {format_in_subs(spacing, arr[idx]) : idx \in 1..Len(arr)}

format_arr_spaced_subs(spacing, arr) ==
    UNION {{Len(arr)} \cup format_in_subs(spacing, arr[idx]) : idx \in 1..Len(arr)}

format_object_unspaced_subs(spacing, obj) ==
    UNION {{Cardinality(DOMAIN obj)} \cup format_in_subs(spacing, obj[key]) : key \in DOMAIN obj}

format_object_spaced_subs(spacing, obj) ==
    UNION {{Cardinality(DOMAIN obj)} \cup format_in_subs(spacing, obj[key]) : key \in DOMAIN obj}

format_in_subs(spacing, value) ==
    CASE value.k = "arr" ->
            IF spacing > 0 THEN format_arr_spaced_subs(spacing, value.a)
            ELSE format_arr_unspaced_subs(spacing, value.a)
      [] value.k = "obj" ->
            IF spacing > 0 THEN format_object_spaced_subs(spacing, value.m)
            ELSE format_object_unspaced_subs(spacing, value.m)
      [] OTHER -> {}

\* a - b on usize leaves the range of usize (a panic in a debug build, a wrap
\* to 2^64 - 1 in a release build) when a < b.
usize_sub_overflows(a, b) == a < b

\* ------------------------------------------------------------------ Value::format

RECURSIVE value_format_in(_, _)
RECURSIVE value_arr_loop(_, _, _)
RECURSIVE value_object_loop(_, _, _, _)

\* for (idx, v) in arr.iter().enumerate() of Value::format_in; idx is 1-based.
value_arr_loop(buf, arr, idx) ==
    IF idx > Len(arr) THEN buf
    ELSE LET b1 == value_format_in(buf, arr[idx])
             b2 == IF idx # Len(arr) THEN b1 \o <<",", " ">> ELSE b1
         IN  value_arr_loop(b2, arr, idx + 1)

\* for (idx, (key, value)) in map.iter().enumerate(); keys is btree_keys of map.
value_object_loop(buf, map, keys, idx) ==
    IF idx > Len(keys) THEN buf
    ELSE LET b1 == buf \o <<"\"">> \o keys[idx] \o <<"\"", ":", " ">>
             b2 == value_format_in(b1, map[keys[idx]])
             b3 == IF idx # Len(keys) THEN b2 \o <<",", " ">> ELSE b2
         IN  value_object_loop(b3, map, keys, idx + 1)

value_format_in(buf, value) ==
    CASE value.k = "null" -> buf \o <<"n", "u", "l", "l">>
      [] value.k = "bool" /\ value.b -> buf \o <<"t", "r", "u", "e">>
      [] value.k = "bool" /\ ~value.b -> buf \o <<"f", "a", "l", "s", "e">>
      [] value.k = "str" -> buf \o <<"\"">> \o value.s \o <<"\"">>
      [] value.k = "num" -> buf \o f64_to_string(value.n)
      [] value.k = "arr" -> Append(value_arr_loop(Append(buf, "["), value.a, 1), "]")
      [] value.k = "obj" ->
            Append(value_object_loop(Append(buf, "{"), value.m, btree_keys(DOMAIN value.m), 1),
                   "}")

\* Value::format
value_format(value) == value_format_in(<<>>, value)

\* The operands of every `len() - 1` (main.rs 39, 52) evaluated by
\* Value::format_in: once for each element, in the body of the loop.
RECURSIVE value_format_in_subs(_)
value_format_in_subs(value) ==
    CASE value.k = "arr" ->
            UNION {{Len(value.a)} \cup value_format_in_subs(value.a[idx]) :
                      idx \in 1..Len(value.a)}
      [] value.k = "obj" ->
            UNION {{Cardinality(DOMAIN value.m)} \cup value_format_in_subs(value.m[key]) :
                      key \in DOMAIN value.m}
      [] OTHER -> {}

\* ------------------------------------------------------------------ inputs

\* Bounds of the inputs: elements of a generated array, entries of a generated
\* object, calls of parse on one parser.
MaxItems == 2

MaxEntries == 2

MaxCalls == 2

\* All sequences over S of length at most n.
SeqsUpTo(S, n) == UNION {[1..m -> S] : m \in 0..n}

\* A JSON text by its structure: a keyword, a number literal, a string
\* literal, an array (tc: a ',' stands before the closing ']') or an object
\* (a sequence of key and value positions, so that a key may repeat and may be
\* any text).
SLit(w) == [k |-> "lit", w |-> w]
SNum(t) == [k |-> "num", t |-> t]
SStr(s) == [k |-> "str", s |-> s]
SArr(a, tc) == [k |-> "arr", a |-> a, tc |-> tc]
SObj(e, tc) == [k |-> "obj", e |-> e, tc |-> tc]
SEntry(key, val) == [key |-> key, val |-> val]

NoTree == [k |-> "none"]

SNull == SLit(<<"n", "u", "l", "l">>)
STrue == SLit(<<"t", "r", "u", "e">>)
SFalse == SLit(<<"f", "a", "l", "s", "e">>)
SOne == SNum(<<"1">>)
STwo == SNum(<<"2">>)
SNeg == SNum(<<"-", "1", "2", ".", "5">>)
SFrac == SNum(<<"1", "2", ".", "5", "0">>)
SKeyA == SStr(<<"a">>)
SKeyB == SStr(<<"b">>)

LeafTrees == {SNull, STrue, SFalse, SOne, STwo, SNeg, SFrac, SKeyA, SStr(<<"b", " ", "\n">>)}

ItemTrees == {SNull, STrue, SOne, SNeg, SFrac, SKeyA}

EntryTrees == {SEntry(key, val) : key \in {SKeyA, SKeyB}, val \in {SOne, STwo, SNull}}

ArrayTrees ==
    {SArr(a, FALSE) : a \in SeqsUpTo(ItemTrees, MaxItems)}
    \cup {SArr(a, TRUE) : a \in SeqsUpTo(ItemTrees, MaxItems) \ {<<>>}}

ObjectTrees ==
    {SObj(e, FALSE) : e \in SeqsUpTo(EntryTrees, MaxEntries)}
    \cup {SObj(<<SEntry(SKeyA, SNeg)>>, FALSE), SObj(<<SEntry(SKeyA, SOne)>>, TRUE)}

\* Objects whose key position holds a value that is not a string.
BadKeyTrees ==
    {SObj(<<SEntry(key, STwo)>>, FALSE) :
        key \in {SOne, SNeg, SFrac, STrue, SFalse, SNull,
                 SArr(<<>>, FALSE), SArr(<<SOne>>, FALSE),
                 SObj(<<>>, FALSE), SObj(<<SEntry(SKeyA, SOne)>>, FALSE)}}

InnerTrees ==
    {SArr(<<>>, FALSE), SArr(<<SOne>>, FALSE), SArr(<<SNeg>>, FALSE), SArr(<<SOne>>, TRUE),
     SObj(<<>>, FALSE), SObj(<<SEntry(SKeyA, SOne)>>, FALSE),
     SObj(<<SEntry(SKeyA, SOne), SEntry(SKeyA, STwo)>>, FALSE),
     SObj(<<SEntry(SOne, STwo)>>, FALSE)}

NestedTrees ==
    {SArr(<<x>>, FALSE) : x \in InnerTrees}
    \cup {SArr(<<SOne, x>>, FALSE) : x \in InnerTrees}
    \cup {SObj(<<SEntry(SKeyA, x)>>, FALSE) : x \in InnerTrees}
    \cup {SObj(<<SEntry(SKeyB, SOne), SEntry(SKeyA, x)>>, FALSE) : x \in InnerTrees}

ContainerTrees == ArrayTrees \cup ObjectTrees \cup BadKeyTrees \cup NestedTrees

Trees == LeafTrees \cup ContainerTrees

\* The whitespace written after '[', '{', ',' and ':' (open) and before ']',
\* '}', ',' and ':' (close).
Gaps == {<<>>, <<" ">>, <<"\n">>, <<"\t", "\r">>}

Layouts == {[open |-> o, close |-> c] : o \in Gaps, c \in Gaps}

NoLayout == [open |-> <<>>, close |-> <<>>]

RECURSIVE Render(_, _)
RECURSIVE RenderItems(_, _, _)
RECURSIVE RenderEntries(_, _, _)

RenderItems(a, g, i) ==
    g.open \o Render(a[i], g) \o g.close
    \o (IF i < Len(a) THEN <<",">> \o RenderItems(a, g, i + 1) ELSE <<>>)

RenderEntries(e, g, i) ==
    g.open \o Render(e[i].key, g) \o g.close \o <<":">>
    \o g.open \o Render(e[i].val, g) \o g.close
    \o (IF i < Len(e) THEN <<",">> \o RenderEntries(e, g, i + 1) ELSE <<>>)

\* The text of a tree, with the layout's whitespace between its tokens.
Render(t, g) ==
    CASE t.k = "lit" -> t.w
      [] t.k = "num" -> t.t
      [] t.k = "str" -> <<"\"">> \o t.s \o <<"\"">>
      [] t.k = "arr" ->
            IF t.a = <<>> THEN <<"[">> \o g.open \o <<"]">>
            ELSE <<"[">> \o RenderItems(t.a, g, 1)
                 \o (IF t.tc THEN <<",">> \o g.open ELSE <<>>) \o <<"]">>
      [] t.k = "obj" ->
            IF t.e = <<>> THEN <<"{">> \o g.open \o <<"}">>
            ELSE <<"{">> \o RenderEntries(t.e, g, 1)
                 \o (IF t.tc THEN <<",">> \o g.open ELSE <<>>) \o <<"}">>

\* What is done to a rendered text before it is handed to the parser: nothing,
\* it is cut after `at` characters, its character `at` is replaced by `ch`, or
\* `rest` is appended.
Edit(op, at, ch, rest) == [op |-> op, at |-> at, ch |-> ch, rest |-> rest]

NoEdit == Edit("none", 0, "", <<>>)

Junk == {"x", "\n"}

Suffixes == {<<",", "3">>, <<" ", "1">>, <<"]">>, <<"2", ",">>}

Edits(text) ==
    {Edit("cut", n, "", <<>>) : n \in 0..(Len(text) - 1)}
    \cup {Edit("sub", i, ch, <<>>) : i \in 1..Len(text), ch \in Junk}
    \cup {Edit("tail", 0, "", r) : r \in Suffixes}

Apply(text, e) ==
    CASE e.op = "none" -> text
      [] e.op = "cut" -> SubSeq(text, 1, e.at)
      [] e.op = "sub" -> [text EXCEPT ![e.at] = e.ch]
      [] e.op = "tail" -> text \o e.rest

\* The Values handed to the formatter.
NumOne == F64(FALSE, 1, 0)
NumNeg == F64(TRUE, 1, 0)
NumFrac == F64(FALSE, 125, 1)
NumSmall == F64(FALSE, 5, 2)

LeafValues ==
    {VNull, VBool(TRUE), VBool(FALSE), VNumber(NumOne), VNumber(NumNeg),
     VNumber(NumFrac), VNumber(NumSmall), VString(<<"a">>), VString(<<>>)}

ItemValues == {VNull, VBool(FALSE), VNumber(NumOne), VNumber(NumFrac), VString(<<"a">>)}

KeyStrings == {<<"a">>, <<"b">>, <<"a", "b">>}

FieldValues == {VNull, VNumber(NumOne), VString(<<"a">>)}

Maps(vals) ==
    UNION {[ks -> vals] : ks \in {x \in SUBSET KeyStrings : Cardinality(x) <= MaxEntries}}

InnerValues ==
    {VArray(<<>>), VObject(EmptyMap), VArray(<<VNumber(NumOne)>>),
     VObject(btree_insert(EmptyMap, <<"a">>, VNull))}

ContainerValues ==
    {VArray(a) : a \in SeqsUpTo(ItemValues, MaxItems)}
    \cup {VObject(m) : m \in Maps(FieldValues)}
    \cup {VArray(a) : a \in SeqsUpTo(InnerValues, MaxItems)}
    \cup {VArray(<<VNumber(NumNeg), x>>) : x \in InnerValues}
    \cup {VObject(m) : m \in Maps(InnerValues)}

Values == LeafValues \cup ContainerValues

\* ------------------------------------------------------------------ state

VARIABLES
    pc,       \* "start", "formatted" (Formatter::format returned), "displayed"
              \* (Value::format returned), "overflow" (a format call evaluated
              \* 0 - 1 on usize), "parser" (a parser exists)
    src,      \* JsonParser.src: the characters not yet taken
    col,      \* JsonParser.col
    line,     \* JsonParser.line
    calls,    \* the number of parse calls made on the parser
    result,   \* what the last parse call returned
    input,    \* the text the parser was constructed on
    tree,     \* the tree the input was rendered from, if any
    layout,   \* the layout it was rendered with
    edit,     \* what was done to the rendered text
    spacing,  \* Formatter.spacing
    doc,      \* the Value handed to Formatter::format, if any
    out       \* the text Formatter::format returned

vars == <<pc, src, col, line, calls, result, input, tree, layout, edit, spacing, doc, out>>

NoResult == [ok |-> FALSE, val |-> NoValue, msg |-> NoMsg, line |-> 0, col |-> 0]

Init ==
    /\ pc = "start"
    /\ src = <<>> /\ col = 0 /\ line = 0 /\ calls = 0
    /\ result = NoResult
    /\ input = <<>> /\ tree = NoTree /\ layout = NoLayout /\ edit = NoEdit
    /\ spacing = 0 /\ doc = NoValue /\ out = <<>>

\* JsonParser::new(text.chars())
Construct(text) ==
    LET p == JsonParser_new(text)
    IN  /\ pc' = "parser"
        /\ src' = p.src /\ col' = p.col /\ line' = p.line
        /\ calls' = 0
        /\ result' = NoResult
        /\ input' = text

\* A parser is constructed on the text of a tree in some layout.
NewParser ==
    /\ pc = "start"
    /\ \E t \in Trees, g \in Layouts :
          /\ (t \in LeafTrees => g = NoLayout)
          /\ Construct(Render(t, g))
          /\ tree' = t /\ layout' = g /\ edit' = NoEdit
    /\ UNCHANGED <<spacing, doc, out>>

\* A parser is constructed on a text that was cut, changed or extended.
NewParserEdited ==
    /\ pc = "start"
    /\ \E t \in Trees :
          \E e \in Edits(Render(t, NoLayout)) :
              /\ Construct(Apply(Render(t, NoLayout), e))
              /\ tree' = t /\ layout' = NoLayout /\ edit' = e
    /\ UNCHANGED <<spacing, doc, out>>

\* Formatter::new().format(&value) and Formatter::standard().format(&value)
Format ==
    /\ pc = "start"
    /\ \E w \in {NewSpacing, StandardSpacing}, v \in Values :
          /\ spacing' = w
          /\ doc' = v
          /\ IF \E n \in format_in_subs(w, v) : usize_sub_overflows(n, 1)
             THEN pc' = "overflow" /\ out' = <<>>
             ELSE pc' = "formatted" /\ out' = format(w, v)
    /\ UNCHANGED <<src, col, line, calls, result, input, tree, layout, edit>>

\* value.format()
ValueFormat ==
    /\ pc = "start"
    /\ \E v \in Values :
          /\ doc' = v
          /\ IF \E n \in value_format_in_subs(v) : usize_sub_overflows(n, 1)
             THEN pc' = "overflow" /\ out' = <<>>
             ELSE pc' = "displayed" /\ out' = value_format(v)
    /\ UNCHANGED <<src, col, line, calls, result, input, tree, layout, edit, spacing>>

\* A parser is constructed on the formatter's output.
NewParserFormatted ==
    /\ pc = "formatted"
    /\ Construct(out)
    /\ UNCHANGED <<tree, layout, edit, spacing, doc, out>>

\* JsonParser::parse
Parse ==
    /\ pc = "parser"
    /\ calls < MaxCalls
    /\ LET r == parse([src |-> src, col |-> col, line |-> line])
       IN  /\ src' = r.p.src /\ col' = r.p.col /\ line' = r.p.line
           /\ result' = r.res
    /\ calls' = calls + 1
    /\ UNCHANGED <<pc, input, tree, layout, edit, spacing, doc, out>>

Next == NewParser \/ NewParserEdited \/ Format \/ ValueFormat \/ NewParserFormatted \/ Parse

Spec == Init /\ [][Next]_vars

\* ------------------------------------------------------------------ reference

\* The characters the parser has taken from its source.
Taken == SubSeq(input, 1, Len(input) - Len(src))

Newlines(text) == {i \in 1..Len(text) : text[i] = "\n"}

\* The 1-based line and column of the position that follows `text`.
LineAfter(text) == 1 + Cardinality(Newlines(text))

ColAfter(text) ==
    LET last == IF Newlines(text) = {} THEN 0
                ELSE CHOOSE i \in Newlines(text) : \A j \in Newlines(text) : j <= i
    IN  1 + Len(text) - last

\* The first parse call on a parser has returned.
Parsed == pc = "parser" /\ calls = 1

\* ... on the unedited text of a tree.
ParsedTree == Parsed /\ tree # NoTree /\ edit = NoEdit

\* ... on the formatter's output.
ParsedFormatted == Parsed /\ doc # NoValue

\* The Value a tree denotes: an array keeps its elements in order, an object
\* maps each key to the value of the key's last entry.
RECURSIVE Denote(_)
Denote(t) ==
    CASE t.k = "lit" -> (IF t = SNull THEN VNull ELSE VBool(t = STrue))
      [] t.k = "num" -> VNumber(str_parse_f64(t.t).n)
      [] t.k = "str" -> VString(t.s)
      [] t.k = "arr" -> VArray([i \in 1..Len(t.a) |-> Denote(t.a[i])])
      [] t.k = "obj" ->
            VObject([key \in {t.e[i].key.s : i \in 1..Len(t.e)} |->
                        LET at == {i \in 1..Len(t.e) : t.e[i].key.s = key}
                            last == CHOOSE i \in at : \A j \in at : j <= i
                        IN  Denote(t.e[last].val)])

RECURSIVE Join(_, _)
Join(parts, sep) ==
    IF parts = <<>> THEN <<>>
    ELSE IF Len(parts) = 1 THEN parts[1]
    ELSE parts[1] \o sep \o Join(Tail(parts), sep)

\* A newline and w spaces when w > 0, nothing when w = 0.
Pad(w) == IF w = 0 THEN <<>> ELSE <<"\n">> \o [i \in 1..w |-> " "]

\* The i-th key in ascending order.
KeyAt(keys, i) == CHOOSE x \in keys : Cardinality({y \in keys : str_less(y, x)}) = i - 1

\* The layout of a Value at indent width w: an empty container is "[]" or
\* "{}"; a non-empty array is '[', the padding, its elements joined by ',' and
\* the padding, ']'; a non-empty object is '{', the padding, its entries in
\* ascending key order joined by ',' and the padding, a newline when w > 0, '}'.
RECURSIVE Reference(_, _)
Reference(w, v) ==
    CASE v.k = "null" -> <<"n", "u", "l", "l">>
      [] v.k = "bool" -> (IF v.b THEN <<"t", "r", "u", "e">> ELSE <<"f", "a", "l", "s", "e">>)
      [] v.k = "num" -> f64_to_string(v.n)
      [] v.k = "str" -> <<"\"">> \o v.s \o <<"\"">>
      [] v.k = "arr" ->
            IF v.a = <<>> THEN <<"[", "]">>
            ELSE <<"[">> \o Pad(w)
                 \o Join([i \in 1..Len(v.a) |-> Reference(w, v.a[i])], <<",">> \o Pad(w))
                 \o <<"]">>
      [] v.k = "obj" ->
            IF DOMAIN v.m = {} THEN <<"{", "}">>
            ELSE <<"{">> \o Pad(w)
                 \o Join([i \in 1..Cardinality(DOMAIN v.m) |->
                            LET key == KeyAt(DOMAIN v.m, i)
                            IN  <<"\"">> \o key \o <<"\"", ":">>
                                \o (IF w = 0 THEN <<>> ELSE <<" ">>)
                                \o Reference(w, v.m[key])],
                         <<",">> \o Pad(w))
                 \o (IF w = 0 THEN <<>> ELSE <<"\n">>) \o <<"}">>

\* Whether a Value holds an empty array or object, at any depth.
RECURSIVE HasEmpty(_)
HasEmpty(v) ==
    CASE v.k = "arr" -> v.a = <<>> \/ \E i \in 1..Len(v.a) : HasEmpty(v.a[i])
      [] v.k = "obj" -> DOMAIN v.m = {} \/ \E key \in DOMAIN v.m : HasEmpty(v.m[key])
      [] OTHER -> FALSE

\* Whether a Value holds a negative number, at any depth.
RECURSIVE HasNegative(_)
HasNegative(v) ==
    CASE v.k = "num" -> v.n.neg
      [] v.k = "arr" -> \E i \in 1..Len(v.a) : HasNegative(v.a[i])
      [] v.k = "obj" -> \E key \in DOMAIN v.m : HasNegative(v.m[key])
      [] OTHER -> FALSE

\* ------------------------------------------------------------------ claims

\* C1: parsing the text Formatter::format(v) returns Ok(v), for both presets
\* and every Value (negative numbers and empty containers included).
C1_RoundTrip == ParsedFormatted => result = OkRes(doc)

\* C2: an array text with a ',' before its closing ']' is rejected.
C2_TrailingCommaRejected ==
    (ParsedTree /\ tree.k = "arr" /\ tree.tc) => ~result.ok

\* The texts of C3: a number, an array of numbers, an object of numbers.
NumberText(t) ==
    \/ t.k = "num"
    \/ t.k = "arr" /\ ~t.tc /\ t.a # <<>> /\ \A i \in 1..Len(t.a) : t.a[i].k = "num"
    \/ t.k = "obj" /\ ~t.tc /\ t.e # <<>>
       /\ \A i \in 1..Len(t.e) : t.e[i].key.k = "str" /\ t.e[i].val.k = "num"

\* C3: a number text, with or without a leading '-', parses to the Number it
\* denotes, alone and as an array element or an object value.
C3_NumberDispatch ==
    (ParsedTree /\ NumberText(tree)) => result = OkRes(Denote(tree))

\* C4: an empty array formats as "[]" and an empty object as "{}" at both
\* indent widths, also inside another container.
C4_EmptyUnpadded ==
    (pc = "formatted" /\ HasEmpty(doc)) => out = Reference(spacing, doc)

\* C5: line and column are those of the position after the characters taken,
\* whatever the characters are.
C5_CursorInvariant ==
    pc = "parser" => line = LineAfter(Taken) /\ col = ColAfter(Taken)

\* The index in the input of the character an error is about: the character
\* peeked at by the dispatch, else the last character taken.
Offending == IF result.msg.kind = "unexpected character" THEN Len(Taken) + 1 ELSE Len(Taken)

\* C6: on an input without a string literal, a failed parse reports the
\* position of the offending character, or the position after the whole input
\* when a character is missing.
C6_ErrorPosition ==
    (Parsed /\ ~result.ok /\ \A i \in 1..Len(input) : input[i] # "\"") =>
        /\ result.msg.got # "" =>
              /\ result.line = LineAfter(SubSeq(input, 1, Offending - 1))
              /\ result.col = ColAfter(SubSeq(input, 1, Offending - 1))
        /\ (result.msg.kind = "unexpected end of line" /\ edit.op = "cut") =>
              /\ result.line = LineAfter(input)
              /\ result.col = ColAfter(input)

\* C7: a Value without empty containers is laid out as the reference layout
\* says, at both indent widths and every depth.
C7_Layout ==
    (pc = "formatted" /\ ~HasEmpty(doc)) => out = Reference(spacing, doc)

C7_Witness ==
    /\ pc = "formatted" /\ spacing = StandardSpacing /\ ~HasEmpty(doc)
    /\ doc.k = "obj" /\ Cardinality(DOMAIN doc.m) = 2
    /\ \E key \in DOMAIN doc.m : doc.m[key].k = "arr"
    /\ out = Reference(spacing, doc)

\* C8: a successfully parsed object text yields an Object that maps every key
\* of the text to the value of the key's last entry.
C8_LastWins ==
    (ParsedTree /\ tree.k = "obj" /\ result.ok) =>
        /\ result.val.k = "obj"
        /\ DOMAIN result.val.m = {tree.e[i].key.s : i \in 1..Len(tree.e)}
        /\ \A i \in 1..Len(tree.e) :
              (\A j \in (i + 1)..Len(tree.e) : tree.e[j].key # tree.e[i].key) =>
                  result.val.m[tree.e[i].key.s] = Denote(tree.e[i].val)

C8_Witness ==
    /\ ParsedTree /\ result.ok
    /\ tree = SObj(<<SEntry(SKeyA, SOne), SEntry(SKeyA, STwo)>>, FALSE)
    /\ result.val = VObject(btree_insert(EmptyMap, <<"a">>, VNumber(F64(FALSE, 2, 0))))

\* Whether a key position of the tree holds a text that is not a string.
RECURSIVE HasBadKey(_)
HasBadKey(t) ==
    CASE t.k = "arr" -> \E i \in 1..Len(t.a) : HasBadKey(t.a[i])
      [] t.k = "obj" -> \E i \in 1..Len(t.e) :
                            t.e[i].key.k # "str" \/ HasBadKey(t.e[i].val)
      [] OTHER -> FALSE

\* C9: an object text with a non-string value at a key position, at any
\* depth, fails with the non-string-key error.
C9_NonStringKey ==
    (ParsedTree /\ HasBadKey(tree)) =>
        ~result.ok /\ result.msg.kind = "expected object key to be a string"

\* C10: the text of an array or object parses to the same result with
\* whitespace between its tokens as without.
C10_WhitespaceInsensitive ==
    (ParsedTree /\ tree \in ContainerTrees) =>
        LET bare == parse(JsonParser_new(Render(tree, NoLayout))).res
        IN  result.ok = bare.ok /\ result.val = bare.val

C10_Witness ==
    /\ ParsedTree /\ result.ok
    /\ layout = [open |-> <<"\t", "\r">>, close |-> <<"\n">>]
    /\ tree = SObj(<<SEntry(SKeyB, SOne), SEntry(SKeyA, SArr(<<SOne>>, FALSE))>>, FALSE)
    /\ result.val = Denote(tree)

\* The first parse call has returned on the text of a tree followed by a suffix.
ParsedTail == Parsed /\ tree # NoTree /\ edit.op = "tail"

\* Whether the suffix starts with a character that belongs to the number the
\* text ends with, so that the number of the input is a longer one.
Continues(t, r) == t.k = "num" /\ r # <<>> /\ Head(r) \in Digits \cup {"."}

\* C11: after parse returned Ok on the text of a value followed by a suffix,
\* the source holds exactly the suffix, and a second parse call returns what a
\* parser constructed on the suffix returns.
C11_TrailingInput ==
    (pc = "parser" /\ tree # NoTree /\ edit.op = "tail" /\ ~Continues(tree, edit.rest)) =>
        /\ (calls = 1 /\ result.ok) => src = edit.rest
        /\ (calls = 2 /\ parse(JsonParser_new(input)).res.ok) =>
              LET fresh == parse(JsonParser_new(edit.rest))
              IN  /\ result.ok = fresh.res.ok
                  /\ result.val = fresh.res.val
                  /\ result.msg = fresh.res.msg
                  /\ src = fresh.p.src

C11_Witness ==
    /\ ParsedTail /\ tree = SFrac /\ edit.rest = <<",", "3">>
    /\ result = OkRes(VNumber(NumFrac))
    /\ src = <<",", "3">>

C11_WitnessSecond ==
    /\ pc = "parser" /\ calls = 2 /\ edit.op = "tail"
    /\ tree = SArr(<<SOne>>, FALSE) /\ edit.rest = <<"2", ",">>
    /\ result = OkRes(VNumber(F64(FALSE, 2, 0)))
    /\ src = <<",">>

\* C12: Formatter::format at both widths and Value::format return a text for
\* every Value, empty containers at any depth included: no call evaluates
\* len() - 1 with len() = 0.
C12_NoFailure ==
    /\ pc # "overflow"
    /\ pc = "formatted" => 0 \notin format_in_subs(spacing, doc) /\ out = format(spacing, doc)
    /\ pc = "displayed" => 0 \notin value_format_in_subs(doc) /\ out = value_format(doc)

C12_Witness ==
    /\ pc = "formatted" /\ spacing = StandardSpacing
    /\ doc = VArray(<<VArray(<<>>), VObject(EmptyMap)>>)
    /\ out = <<"[", "\n", " ", " ", "[", "\n", " ", " ", "]", ",", "\n", " ", " ",
               "{", "\n", " ", " ", "\n", "}", "]">>

\* Value::format separates the items with ", ".
C12_WitnessDisplay ==
    /\ pc = "displayed"
    /\ doc = VArray(<<VBool(FALSE), VNumber(NumFrac)>>)
    /\ out = <<"[", "f", "a", "l", "s", "e", ",", " ", "1", "2", ".", "5", "]">>

\* C13: parse returns the end-of-input error only when no character was
\* available where it failed, so that after this error the source is empty.
C13_EofOnlyAtEnd ==
    (Parsed /\ ~result.ok /\ result.msg.kind = "unexpected end of line") => src = <<>>

\* The first parse call has returned on a text that ends inside a string, an
\* array or an object whose keys are strings.
Unterminated ==
    /\ Parsed /\ tree # NoTree /\ tree.k \in {"str", "arr", "obj"} /\ ~HasBadKey(tree)
    /\ edit.op = "cut" /\ edit.at >= 1

\* C14: parse returns having taken a prefix of the input, no more characters
\* than the input holds, and on a text that ends inside an unterminated
\* string, array or object it returns the end-of-input error.
C14_Termination ==
    /\ pc = "parser" => Len(src) <= Len(input) /\ Taken \o src = input
    /\ Unterminated => ~result.ok /\ result.msg.kind = "unexpected end of line"

====
